---- MODULE Spec2Model ----
(***************************************************************************)
(* TFTP packet classes of tftp/details/packets.hpp: the five packet        *)
(* classes (Request, Data, Acknowledgment, Error, OptionAcknowledgment),   *)
(* their constructors, their serialize methods and the option lookups.     *)
(*                                                                         *)
(* Bytes are naturals 0..255, strings and buffers are sequences of bytes.  *)
(* A caller constructs one packet value, serializes it into a fresh sink   *)
(* and, for an OptionAcknowledgment, looks options up.  The host byte      *)
(* order and the NDEBUG setting of the build are fixed per behaviour.      *)
(***************************************************************************)
EXTENDS Naturals, Integers, Sequences, FiniteSets, TLC

VARIABLES
    BigEndianHost,  \* byte order of the host the header is compiled for
    NDEBUG,         \* TRUE: assert() expands to nothing
    status,         \* "running" | "aborted" | "terminated" | "crashed"
    pkt,            \* the packet value the caller holds
    ctor,           \* "none" | "default" | "fields": the constructor that built pkt
    serialized,     \* TRUE once serialize returned for pkt
    out,            \* the bytes serialize wrote through the iterator
    ret,            \* the size serialize returned
    result          \* outcome of the last hasOption / getOptionValue call

vars == <<BigEndianHost, NDEBUG, status, pkt, ctor, serialized, out, ret, result>>

----------------------------------------------------------------------------
(* Bounds of the model and sample inputs *)

MaxOpts == 2

SeqUpTo(S, n) == UNION {[1..k -> S] : k \in 0..n}

\* types::Type
ReadRequest == 1
WriteRequest == 2
DataPacket == 3
AcknowledgmentPacket == 4
ErrorPacket == 5
OptionAcknowledgmentPacket == 6

\* errors::Error, largest enumerator
WrongBlocksize == 8

\* largest data field the Data constructors assume
MaxDataSize == 512

\* sizeof(std::uint16_t)
SizeofU16 == 2

\* "octet", "netascii", "mail"
Octet == <<111, 99, 116, 101, 116>>
NetAscii == <<110, 101, 116, 97, 115, 99, 105, 105>>
Mail == <<109, 97, 105, 108>>

\* "file.txt" and "a\0b"
FileTxt == <<102, 105, 108, 101, 46, 116, 120, 116>>
EmbeddedNull == <<97, 0, 98>>

\* "blksize", "tsize", "1024", "0"
BlkSize == <<98, 108, 107, 115, 105, 122, 101>>
TSize == <<116, 115, 105, 122, 101>>
V1024 == <<49, 48, 50, 52>>
V0 == <<48>>

\* "File not found"
FileNotFoundMsg == <<70, 105, 108, 101, 32, 110, 111, 116, 32, 102, 111, 117, 110, 100>>

TypeSamples == {ReadRequest, WriteRequest, DataPacket}
FilenameSamples == {<<>>, FileTxt, EmbeddedNull}
ModeSamples == {<<>>, Octet, Mail}
OptNames == {BlkSize, TSize}
OptValues == {V1024, V0}
U16Samples == {0, 1, 5, 8, 9, 258, 65535}
MessageSamples == {<<>>, FileNotFoundMsg, EmbeddedNull}
PayloadSeeds == {0, 200}
PayloadLengths == {0, 1, MaxDataSize - 1, MaxDataSize, MaxDataSize + 1}

\* a buffer of len bytes, zero bytes included
Payload(len, seed) == [i \in 1..len |-> (seed + i) % 256]

\* what a read past the end of OptionsValues may hand back
GarbageStrings == {<<>>, <<88>>}

None == [kind |-> "None"]
NoResult == [op |-> "none"]

----------------------------------------------------------------------------
(* Integer conversions *)

\* static_cast<std::uint8_t>(x)
U8(x) == x % 256

\* htons: a byte swap on little-endian hosts, the identity on big-endian ones
htons(x) == IF BigEndianHost THEN x ELSE (x % 256) * 256 + (x \div 256)

\* the two stores  *(It++) = u8(htons(x) >> 0);  *(It++) = u8(htons(x) >> 8);
PutU16(x) == <<U8(htons(x)), U8(htons(x) \div 256)>>

----------------------------------------------------------------------------
(* Constructors *)

\* assert(cond): aborts the process unless NDEBUG is defined
AssertFails(cond) == ~NDEBUG /\ ~cond

\* one packet value is constructed per send event
CanConstruct == status = "running" /\ pkt = None

Construct(cond, value, how) ==
    /\ IF AssertFails(cond)
          THEN /\ status' = "aborted"
               /\ pkt' = None
               /\ ctor' = "none"
          ELSE /\ status' = "running"
               /\ pkt' = value
               /\ ctor' = how
    /\ serialized' = FALSE
    /\ out' = <<>>
    /\ ret' = 0
    /\ result' = NoResult
    /\ UNCHANGED <<BigEndianHost, NDEBUG>>

RequestValue(T, F, M, N, V) ==
    [kind |-> "Request", Type_ |-> T, Filename |-> F, Mode |-> M,
     OptionsNames |-> N, OptionsValues |-> V]

\* Request() = default: Type_ is left uninitialized
RequestDefault ==
    /\ CanConstruct
    /\ \E T \in U16Samples :
           Construct(TRUE, RequestValue(T, <<>>, <<>>, <<>>, <<>>), "default")

\* Request(Type, Filename, Mode), both overloads
RequestCtor ==
    /\ CanConstruct
    /\ \E T \in TypeSamples, F \in FilenameSamples, M \in ModeSamples :
           Construct(T = ReadRequest \/ T = WriteRequest,
                     RequestValue(T, F, M, <<>>, <<>>), "fields")

\* Request(Type, Filename, Mode, OptionsNames, OptionsValues), both overloads
RequestCtorOptions ==
    /\ CanConstruct
    /\ \E T \in TypeSamples, F \in FilenameSamples, M \in ModeSamples,
          N \in SeqUpTo(OptNames, MaxOpts), V \in SeqUpTo(OptValues, MaxOpts) :
           Construct(T = ReadRequest \/ T = WriteRequest,
                     RequestValue(T, F, M, N, V), "fields")

DataValue(B, Buf) ==
    [kind |-> "Data", Type_ |-> DataPacket, Block |-> B, DataBuffer |-> Buf]

\* Data() = default: Block is left uninitialized
DataDefault ==
    /\ CanConstruct
    /\ \E B \in U16Samples : Construct(TRUE, DataValue(B, <<>>), "default")

\* Data(Block, Buffer), both overloads
DataCtor ==
    /\ CanConstruct
    /\ \E B \in U16Samples, len \in PayloadLengths, seed \in PayloadSeeds :
           Construct(B >= 1 /\ len >= 0 /\ len <= MaxDataSize,
                     DataValue(B, Payload(len, seed)), "fields")

AcknowledgmentValue(B) ==
    [kind |-> "Acknowledgment", Type_ |-> AcknowledgmentPacket, Block |-> B]

\* Acknowledgment() = default: Block is left uninitialized
AcknowledgmentDefault ==
    /\ CanConstruct
    /\ \E B \in U16Samples : Construct(TRUE, AcknowledgmentValue(B), "default")

\* explicit Acknowledgment(Block)
AcknowledgmentCtor ==
    /\ CanConstruct
    /\ \E B \in U16Samples : Construct(B >= 1, AcknowledgmentValue(B), "fields")

ErrorValue(C, Msg) ==
    [kind |-> "Error", Type_ |-> ErrorPacket, ErrorCode |-> C, ErrorMessage |-> Msg]

\* Error() = default: ErrorCode is left uninitialized
ErrorDefault ==
    /\ CanConstruct
    /\ \E C \in U16Samples : Construct(TRUE, ErrorValue(C, <<>>), "default")

\* Error(ErrorCode, ErrorMessage), both overloads
ErrorCtor ==
    /\ CanConstruct
    /\ \E C \in U16Samples, Msg \in MessageSamples :
           Construct(C >= 0 /\ C <= WrongBlocksize, ErrorValue(C, Msg), "fields")

\* the orders in which an unordered_map holding the keys S may be iterated
IterationOrders(S) ==
    {o \in [1..Cardinality(S) -> S] : \A i, j \in 1..Cardinality(S) : o[i] = o[j] => i = j}

\* std::unordered_map<std::string, std::string> contents
OptionMaps == UNION {[S -> OptValues] : S \in SUBSET OptNames}

OptionAcknowledgmentValue(Map, Order) ==
    [kind |-> "OptionAcknowledgment", Type_ |-> OptionAcknowledgmentPacket,
     Options |-> Map, Order |-> Order]

\* OptionAcknowledgment() = default: an empty map
OptionAcknowledgmentDefault ==
    /\ CanConstruct
    /\ Construct(TRUE, OptionAcknowledgmentValue(<<>>, <<>>), "default")

\* OptionAcknowledgment(Options): the map is moved in; the order in which it
\* is iterated is whatever the container's history and hashing produced
OptionAcknowledgmentCtor ==
    /\ CanConstruct
    /\ \E Map \in OptionMaps :
           \E Order \in IterationOrders(DOMAIN Map) :
               Construct(TRUE, OptionAcknowledgmentValue(Map, Order), "fields")

----------------------------------------------------------------------------
(* serialize *)

\* the loop over the options: name bytes, '\0', value bytes, '\0' per entry
RECURSIVE PairsBytes(_, _, _)
PairsBytes(Names, Values, Idx) ==
    IF Idx > Len(Names)
       THEN <<>>
       ELSE Names[Idx] \o <<0>> \o Values[Idx] \o <<0>> \o PairsBytes(Names, Values, Idx + 1)

\* OptionsSize += name.size() + value.size() + 2
RECURSIVE PairsSize(_, _, _)
PairsSize(Names, Values, Idx) ==
    IF Idx > Len(Names)
       THEN 0
       ELSE Len(Names[Idx]) + Len(Values[Idx]) + 2 + PairsSize(Names, Values, Idx + 1)

\* OptionsValues[Idx] for Idx < OptionsNames.size(); g stands for what a read
\* past the end of OptionsValues yields
ValuesRead(p, g) ==
    [i \in 1..Len(p.OptionsNames) |->
        IF i <= Len(p.OptionsValues) THEN p.OptionsValues[i] ELSE g[i]]

RequestBytes(p, Values) ==
    PutU16(p.Type_) \o p.Filename \o <<0>> \o p.Mode \o <<0>>
        \o PairsBytes(p.OptionsNames, Values, 1)

\* RequestSize without the two terminators of filename and mode
RequestSizeNoTerminators(p, Values) ==
    SizeofU16 + Len(p.Filename) + Len(p.Mode) + PairsSize(p.OptionsNames, Values, 1)

RequestSize(p, Values) ==
    SizeofU16 + Len(p.Filename) + Len(p.Mode) + PairsSize(p.OptionsNames, Values, 1) + 2

DataBytes(p) == PutU16(p.Type_) \o PutU16(p.Block) \o p.DataBuffer

DataSize(p) == SizeofU16 + SizeofU16 + Len(p.DataBuffer)

AcknowledgmentBytes(p) == PutU16(p.Type_) \o PutU16(p.Block)

AcknowledgmentSize(p) == SizeofU16 + SizeofU16

ErrorBytes(p) == PutU16(p.Type_) \o PutU16(p.ErrorCode) \o p.ErrorMessage \o <<0>>

ErrorSize(p) == SizeofU16 + SizeofU16 + Len(p.ErrorMessage) + 1

\* the values in the order the map is iterated
OrderedValues(p) == [i \in 1..Len(p.Order) |-> p.Options[p.Order[i]]]

OptionAcknowledgmentBytes(p) ==
    PutU16(p.Type_) \o PairsBytes(p.Order, OrderedValues(p), 1)

OptionAcknowledgmentSize(p) ==
    SizeofU16 + PairsSize(p.Order, OrderedValues(p), 1)

Written(bytes, size) ==
    /\ out' = bytes
    /\ ret' = size
    /\ serialized' = TRUE
    /\ UNCHANGED <<BigEndianHost, NDEBUG, status, pkt, ctor, result>>

Stopped(how) ==
    /\ status' = how
    /\ UNCHANGED <<BigEndianHost, NDEBUG, pkt, ctor, serialized, out, ret, result>>

\* Request::serialize
RequestSerialize ==
    /\ status = "running"
    /\ pkt.kind = "Request"
    /\ IF AssertFails(Len(pkt.OptionsNames) = Len(pkt.OptionsValues))
          THEN Stopped("aborted")
          ELSE IF Len(pkt.OptionsNames) > Len(pkt.OptionsValues)
                  THEN \* OptionsValues[Idx] is read past the end
                       \/ Stopped("crashed")
                       \/ \E g \in [1..Len(pkt.OptionsNames) -> GarbageStrings] :
                             Written(RequestBytes(pkt, ValuesRead(pkt, g)),
                                     RequestSize(pkt, ValuesRead(pkt, g)))
                  ELSE Written(RequestBytes(pkt, ValuesRead(pkt, <<>>)),
                               RequestSize(pkt, ValuesRead(pkt, <<>>)))

\* Data::serialize
DataSerialize ==
    /\ status = "running"
    /\ pkt.kind = "Data"
    /\ Written(DataBytes(pkt), DataSize(pkt))

\* Acknowledgment::serialize
AcknowledgmentSerialize ==
    /\ status = "running"
    /\ pkt.kind = "Acknowledgment"
    /\ Written(AcknowledgmentBytes(pkt), AcknowledgmentSize(pkt))

\* Error::serialize
ErrorSerialize ==
    /\ status = "running"
    /\ pkt.kind = "Error"
    /\ Written(ErrorBytes(pkt), ErrorSize(pkt))

\* OptionAcknowledgment::serialize
OptionAcknowledgmentSerialize ==
    /\ status = "running"
    /\ pkt.kind = "OptionAcknowledgment"
    /\ Written(OptionAcknowledgmentBytes(pkt), OptionAcknowledgmentSize(pkt))

----------------------------------------------------------------------------
(* Option lookups of OptionAcknowledgment *)

LookupNames == OptNames

\* Options.count(OptionName)
Count(p, name) == IF name \in DOMAIN p.Options THEN 1 ELSE 0

\* bool hasOption(OptionName) const noexcept
hasOption ==
    /\ status = "running"
    /\ pkt.kind = "OptionAcknowledgment"
    /\ \E name \in LookupNames :
          result' = [op |-> "hasOption", name |-> name, outcome |-> "returned",
                     value |-> (Count(pkt, name) # 0)]
    /\ UNCHANGED <<BigEndianHost, NDEBUG, status, pkt, ctor, serialized, out, ret>>

\* std::string_view getOptionValue(OptionName) const noexcept: Options.at()
\* throws std::out_of_range for a missing key, and an exception that leaves
\* a noexcept function calls std::terminate
getOptionValue ==
    /\ status = "running"
    /\ pkt.kind = "OptionAcknowledgment"
    /\ \E name \in LookupNames :
          IF name \in DOMAIN pkt.Options
             THEN /\ result' = [op |-> "getOptionValue", name |-> name,
                                outcome |-> "returned", value |-> pkt.Options[name]]
                  /\ status' = "running"
             ELSE /\ result' = [op |-> "getOptionValue", name |-> name,
                                outcome |-> "terminate", value |-> <<>>]
                  /\ status' = "terminated"
    /\ UNCHANGED <<BigEndianHost, NDEBUG, pkt, ctor, serialized, out, ret>>

----------------------------------------------------------------------------

Init ==
    /\ BigEndianHost \in BOOLEAN
    /\ NDEBUG \in BOOLEAN
    /\ status = "running"
    /\ pkt = None
    /\ ctor = "none"
    /\ serialized = FALSE
    /\ out = <<>>
    /\ ret = 0
    /\ result = NoResult

Next ==
    \/ RequestDefault
    \/ RequestCtor
    \/ RequestCtorOptions
    \/ DataDefault
    \/ DataCtor
    \/ AcknowledgmentDefault
    \/ AcknowledgmentCtor
    \/ ErrorDefault
    \/ ErrorCtor
    \/ OptionAcknowledgmentDefault
    \/ OptionAcknowledgmentCtor
    \/ RequestSerialize
    \/ DataSerialize
    \/ AcknowledgmentSerialize
    \/ ErrorSerialize
    \/ OptionAcknowledgmentSerialize
    \/ hasOption
    \/ getOptionValue

Spec == Init /\ [][Next]_vars

----------------------------------------------------------------------------
(* The data model the packets are specified against *)

NoNull(str) == \A i \in DOMAIN str : str[i] # 0 /\ str[i] < 128

Unique(seq) == \A i, j \in DOMAIN seq : seq[i] = seq[j] => i = j

AllNoNull(seq) == \A i \in DOMAIN seq : NoNull(seq[i])

\* the invariants of the data model, per variant
WellFormed(p) ==
    CASE p.kind = "Request" ->
            /\ p.Type_ \in {ReadRequest, WriteRequest}
            /\ p.Filename # <<>> /\ NoNull(p.Filename)
            /\ p.Mode # <<>> /\ NoNull(p.Mode)
            /\ Len(p.OptionsNames) = Len(p.OptionsValues)
            /\ Unique(p.OptionsNames)
            /\ AllNoNull(p.OptionsNames) /\ AllNoNull(p.OptionsValues)
      [] p.kind = "Data" ->
            /\ p.Block >= 1
            /\ Len(p.DataBuffer) <= MaxDataSize
      [] p.kind = "Acknowledgment" -> p.Block >= 1
      [] p.kind = "Error" ->
            /\ p.ErrorCode <= WrongBlocksize
            /\ NoNull(p.ErrorMessage)
      [] p.kind = "OptionAcknowledgment" ->
            /\ \A n \in DOMAIN p.Options : NoNull(n) /\ NoNull(p.Options[n])
      [] OTHER -> FALSE

\* x as two bytes, most significant first
BigEndian(x) == <<x \div 256, x % 256>>

\* name_1 0 value_1 0 ... name_k 0 value_k 0
RECURSIVE WirePairs(_, _)
WirePairs(Names, Values) ==
    IF Names = <<>>
       THEN <<>>
       ELSE Head(Names) \o <<0>> \o Head(Values) \o <<0>>
                \o WirePairs(Tail(Names), Tail(Values))

RECURSIVE SumLen(_)
SumLen(seq) == IF seq = <<>> THEN 0 ELSE Len(Head(seq)) + SumLen(Tail(seq))

RECURSIVE MapLen(_, _)
MapLen(Map, Keys) ==
    IF Keys = {}
       THEN 0
       ELSE LET k == CHOOSE x \in Keys : TRUE
            IN  Len(k) + Len(Map[k]) + 2 + MapLen(Map, Keys \ {k})

\* the packet length computed from the fields alone
FieldLength(p) ==
    CASE p.kind = "Request" ->
            2 + Len(p.Filename) + 1 + Len(p.Mode) + 1
              + SumLen(p.OptionsNames) + SumLen(p.OptionsValues) + 2 * Len(p.OptionsNames)
      [] p.kind = "Data" -> 4 + Len(p.DataBuffer)
      [] p.kind = "Acknowledgment" -> 4
      [] p.kind = "Error" -> 4 + Len(p.ErrorMessage) + 1
      [] p.kind = "OptionAcknowledgment" -> 2 + MapLen(p.Options, DOMAIN p.Options)

----------------------------------------------------------------------------
(* Claims *)

\* C1: a Request with opcode RRQ or WRQ serializes to exactly opcode (2 bytes,
\* 00 01 or 00 02), filename, 0, mode, 0, then name, 0, value, 0 per option in
\* index order, and nothing else.
RequestLayout ==
    (/\ serialized
     /\ ctor = "fields"
     /\ pkt.kind = "Request"
     /\ WellFormed(pkt))
    => out = <<0, pkt.Type_>> \o pkt.Filename \o <<0>> \o pkt.Mode \o <<0>>
                \o WirePairs(pkt.OptionsNames, pkt.OptionsValues)

\* C2: every 16-bit field serialize writes (opcode, block, error code) is
\* big-endian on the wire, whatever the byte order of the host.
FieldsBigEndian ==
    (serialized /\ ctor = "fields" /\ WellFormed(pkt)) =>
        CASE pkt.kind = "Request" -> SubSeq(out, 1, 2) = BigEndian(pkt.Type_)
          [] pkt.kind = "Data" ->
                SubSeq(out, 1, 4) = BigEndian(DataPacket) \o BigEndian(pkt.Block)
          [] pkt.kind = "Acknowledgment" ->
                out = <<0, 4>> \o BigEndian(pkt.Block)
          [] pkt.kind = "Error" ->
                SubSeq(out, 1, 4) = BigEndian(ErrorPacket) \o BigEndian(pkt.ErrorCode)
          [] pkt.kind = "OptionAcknowledgment" ->
                SubSeq(out, 1, 2) = BigEndian(OptionAcknowledgmentPacket)

\* C3: for a packet that satisfies the data-model invariants, the size
\* serialize returns is the number of bytes it wrote and is the length
\* computed from the fields alone.
SizeMatchesBytes ==
    (serialized /\ WellFormed(pkt)) => (ret = Len(out) /\ ret = FieldLength(pkt))

\* a well-formed Request with options has been serialized
SizeMatchesBytesWitness ==
    /\ serialized
    /\ pkt.kind = "Request"
    /\ WellFormed(pkt)
    /\ Len(pkt.OptionsNames) >= 2
    /\ ret = Len(out)

----------------------------------------------------------------------------
(* The decoder of the specification, section 4.3 *)

Fail(e) == [ok |-> FALSE, error |-> e, value |-> None]

Ok(v) == [ok |-> TRUE, error |-> "", value |-> v]

\* index of the first null byte of bytes, 0 when there is none
FirstNull(bytes) ==
    IF \E i \in 1..Len(bytes) : bytes[i] = 0
       THEN CHOOSE i \in 1..Len(bytes) :
                bytes[i] = 0 /\ \A j \in 1..(i - 1) : bytes[j] # 0
       ELSE 0

\* the null-terminated strings of bytes, in order; ok is FALSE when the
\* buffer ends in an unterminated fragment
RECURSIVE SplitStrings(_)
SplitStrings(bytes) ==
    IF bytes = <<>>
       THEN [ok |-> TRUE, strings |-> <<>>]
       ELSE LET i == FirstNull(bytes)
            IN  IF i = 0
                   THEN [ok |-> FALSE, strings |-> <<>>]
                   ELSE LET r == SplitStrings(SubSeq(bytes, i + 1, Len(bytes)))
                        IN  [ok |-> r.ok, strings |-> <<SubSeq(bytes, 1, i - 1)>> \o r.strings]

\* parse_pairs: two null-terminated strings at a time until the buffer ends
parse_pairs(bytes) ==
    LET s == SplitStrings(bytes)
        n == Len(s.strings) \div 2
        names == [i \in 1..n |-> s.strings[2 * i - 1]]
        values == [i \in 1..n |-> s.strings[2 * i]]
    IN  IF ~s.ok \/ Len(s.strings) % 2 # 0
           THEN Fail("MissingTerminator")
           ELSE IF ~Unique(names)
                   THEN Fail("DuplicateOption")
                   ELSE Ok([name \in {names[i] : i \in 1..n} |->
                               values[CHOOSE i \in 1..n : names[i] = name]])

ToLower(b) == IF b >= 65 /\ b <= 90 THEN b + 32 ELSE b

LowerCase(str) == [i \in DOMAIN str |-> ToLower(str[i])]

\* the packet values of the data model; options compare as mappings
RequestModel(op, f, m, opts) ==
    [kind |-> "Request", opcode |-> op, filename |-> f, mode |-> m, options |-> opts]

DataModel(b, payload) == [kind |-> "Data", block |-> b, payload |-> payload]

AcknowledgmentModel(b) == [kind |-> "Acknowledgment", block |-> b]

ErrorModel(c, msg) == [kind |-> "Error", code |-> c, message |-> msg]

OptionAcknowledgmentModel(opts) == [kind |-> "OptionAcknowledgment", options |-> opts]

DecodeRequest(op, body) ==
    LET i == FirstNull(body)
        afterName == SubSeq(body, i + 1, Len(body))
        j == FirstNull(afterName)
        mode == SubSeq(afterName, 1, j - 1)
        pairs == parse_pairs(SubSeq(afterName, j + 1, Len(afterName)))
    IN  IF i = 0 \/ j = 0
           THEN Fail("MissingTerminator")
           ELSE IF LowerCase(mode) \notin {NetAscii, Octet}
                   THEN Fail("InvalidMode")
                   ELSE IF ~pairs.ok
                           THEN pairs
                           ELSE IF i = 1
                                   THEN Fail("ConstructionError")
                                   ELSE Ok(RequestModel(op, SubSeq(body, 1, i - 1),
                                                        mode, pairs.value))

DecodeData(bytes) ==
    IF Len(bytes) < 4
       THEN Fail("TruncatedPacket")
       ELSE IF Len(bytes) - 4 > MaxDataSize
               THEN Fail("OversizedPayload")
               ELSE IF bytes[3] * 256 + bytes[4] < 1
                       THEN Fail("ConstructionError")
                       ELSE Ok(DataModel(bytes[3] * 256 + bytes[4],
                                         SubSeq(bytes, 5, Len(bytes))))

DecodeAcknowledgment(bytes) ==
    IF Len(bytes) < 4
       THEN Fail("TruncatedPacket")
       ELSE IF Len(bytes) > 4
               THEN Fail("TrailingBytes")
               ELSE IF bytes[3] * 256 + bytes[4] < 1
                       THEN Fail("ConstructionError")
                       ELSE Ok(AcknowledgmentModel(bytes[3] * 256 + bytes[4]))

DecodeError(bytes) ==
    LET body == SubSeq(bytes, 5, Len(bytes))
        i == FirstNull(body)
    IN  IF Len(bytes) < 4
           THEN Fail("TruncatedPacket")
           ELSE IF bytes[3] * 256 + bytes[4] > WrongBlocksize
                   THEN Fail("InvalidErrorCode")
                   ELSE IF i = 0
                           THEN Fail("MissingTerminator")
                           ELSE IF i < Len(body)
                                   THEN Fail("TrailingBytes")
                                   ELSE Ok(ErrorModel(bytes[3] * 256 + bytes[4],
                                                      SubSeq(body, 1, i - 1)))

DecodeOptionAcknowledgment(bytes) ==
    LET pairs == parse_pairs(SubSeq(bytes, 3, Len(bytes)))
    IN  IF pairs.ok THEN Ok(OptionAcknowledgmentModel(pairs.value)) ELSE pairs

\* decode(bytes) -> Packet or DecodingError
Decode(bytes) ==
    IF Len(bytes) < 2
       THEN Fail("TruncatedPacket")
       ELSE LET op == bytes[1] * 256 + bytes[2]
            IN  CASE op \in {ReadRequest, WriteRequest} ->
                        DecodeRequest(op, SubSeq(bytes, 3, Len(bytes)))
                  [] op = DataPacket -> DecodeData(bytes)
                  [] op = AcknowledgmentPacket -> DecodeAcknowledgment(bytes)
                  [] op = ErrorPacket -> DecodeError(bytes)
                  [] op = OptionAcknowledgmentPacket -> DecodeOptionAcknowledgment(bytes)
                  [] OTHER -> Fail("UnknownOpcode")

\* the data-model value a well-formed packet object stands for
ModelOf(p) ==
    CASE p.kind = "Request" ->
            RequestModel(p.Type_, p.Filename, p.Mode,
                         [name \in {p.OptionsNames[i] : i \in DOMAIN p.OptionsNames} |->
                             p.OptionsValues[CHOOSE i \in DOMAIN p.OptionsNames :
                                                 p.OptionsNames[i] = name]])
      [] p.kind = "Data" -> DataModel(p.Block, p.DataBuffer)
      [] p.kind = "Acknowledgment" -> AcknowledgmentModel(p.Block)
      [] p.kind = "Error" -> ErrorModel(p.ErrorCode, p.ErrorMessage)
      [] p.kind = "OptionAcknowledgment" -> OptionAcknowledgmentModel(p.Options)

\* a transfer mode the decoder accepts
KnownMode(p) == p.kind = "Request" => LowerCase(p.Mode) \in {NetAscii, Octet}

\* C4: decoding the bytes serialize produced for a well-formed packet
\* succeeds and yields a packet equal to it (options compared as mappings);
\* stated for the packets whose transfer mode the decoder knows.
RoundTrip ==
    (serialized /\ ctor = "fields" /\ WellFormed(pkt) /\ KnownMode(pkt)) =>
        (/\ Decode(out).ok
         /\ Decode(out).value.kind = pkt.kind
         /\ Decode(out).value = ModelOf(pkt))


\* C5: construction with fields that violate a data-model invariant is
\* reported to the caller as an error and yields no packet value, so the
\* caller never holds, and serialize never receives, a malformed packet.
ConstructionRejectsMalformed ==
    /\ status # "aborted"
    /\ ctor = "fields" => WellFormed(pkt)

\* C6: every Data value construction yields has block >= 1 and at most 512
\* payload bytes, so serialize writes between 4 and 516 bytes for it.
DataWithinBounds ==
    (pkt.kind = "Data" /\ ctor = "fields") =>
        /\ pkt.Block >= 1
        /\ Len(pkt.DataBuffer) <= MaxDataSize
        /\ serialized => (Len(out) >= 4 /\ Len(out) <= MaxDataSize + 4)

\* C7: two OptionAcknowledgment values holding the same mapping serialize to
\* the same bytes, whatever order their container iterates the entries in.
OptionAcknowledgmentDeterministic ==
    (serialized /\ pkt.kind = "OptionAcknowledgment") =>
        \A Order \in IterationOrders(DOMAIN pkt.Options) :
            OptionAcknowledgmentBytes(OptionAcknowledgmentValue(pkt.Options, Order)) = out

\* C8: an Error with code c in 0..8 and message s serializes to exactly
\* 00 05, hi(c) lo(c), the bytes of s, 00; the terminator is the only null
\* byte after the header and an empty message gives 5 bytes.
ErrorLayout ==
    (serialized /\ ctor = "fields" /\ pkt.kind = "Error" /\ WellFormed(pkt)) =>
        /\ out = <<0, 5>> \o BigEndian(pkt.ErrorCode) \o pkt.ErrorMessage \o <<0>>
        /\ \A i \in 5..(Len(out) - 1) : out[i] # 0
        /\ pkt.ErrorMessage = <<>> => Len(out) = 5

\* C9: hasOption(name) is TRUE exactly for the keys of the mapping;
\* getOptionValue(name) returns the stored value for a key and otherwise
\* signals out_of_range to a caller that keeps running.
LookupContract ==
    /\ result.op = "hasOption" =>
          result.value = (result.name \in DOMAIN pkt.Options)
    /\ result.op = "getOptionValue" =>
          IF result.name \in DOMAIN pkt.Options
             THEN result.outcome = "returned" /\ result.value = pkt.Options[result.name]
             ELSE result.outcome = "out_of_range" /\ status = "running"

\* C10: every Request a constructor produces has as many option names as
\* option values, so serialize's assertion holds and no value is read past
\* the end of the values.
RequestOptionVectorsAgree ==
    /\ pkt.kind = "Request" => Len(pkt.OptionsNames) = Len(pkt.OptionsValues)
    /\ status # "crashed"

----------------------------------------------------------------------------
(* What holds where htons swaps the bytes *)

\* on a little-endian host the Request layout is the specified one
RequestLayoutLittleEndian == ~BigEndianHost => RequestLayout

\* on a little-endian host every 16-bit field is written big-endian
FieldsBigEndianLittleEndian == ~BigEndianHost => FieldsBigEndian

\* on a little-endian host the Error layout is the specified one
ErrorLayoutLittleEndian == ~BigEndianHost => ErrorLayout

\* on a little-endian host the round trip holds for the known transfer modes
RoundTripLittleEndian == ~BigEndianHost => RoundTrip

====
